---------------------------- MODULE Spec2Model ----------------------------
(***************************************************************************)
(* The bower registry gateway of src/registry.go: a goproxy server with    *)
(* three request handlers (redirect/deprecation, package list, package     *)
(* lookup) and a NonproxyHandler that rewrites a request to the local node *)
(* application.  Strings are TLA+ strings; the string functions of the Go  *)
(* code (strings.HasPrefix, strings.Split, json.Marshal) are operators     *)
(* that compute character by character.                                    *)
(***************************************************************************)
EXTENDS Integers, Sequences, FiniteSets, TLC

(***************************************************************************)
(* Bounds of the model.                                                    *)
(***************************************************************************)
\* Number of concurrently served connections (one goroutine each).
NumTasks == 2
\* Longest request path, in '/'-delimited segments.
MaxSegs == 3
\* Most segments after "/packages" in the path of a lookup request.
MaxNameSegs == 3

(***************************************************************************)
(* Program constants.                                                      *)
(***************************************************************************)
\* time.Sleep(10 * time.Second), in seconds.
SleepSeconds == 10
StatusOK == 200
StatusPermanentRedirect == 308
StatusNotFound == 404
StatusInternalServerError == 500

MigratedHosts == {"registry.bower.io", "components.bower.io"}
SearchPrefix == "/packages/search/"
\* Mutant: the prefix lacks its trailing slash.
LookupPrefixNoSlash == "/packages"
LookupPrefix == "/packages/"
ListPath == "/packages"
\* Mutant: another key is read.
CacheKeyOther == "package"
CacheKey == "packages"
UpstreamOrigin == "https://registry.bower.io"
DelegateScheme == "http"
DelegateHost == "localhost:3001"
CacheControl == <<"Cache-Control", "public, max-age=604800">>
\* Mutant: the record is not wrapped in an array.
DeprecationBodyBare ==
    "{\"name\":\"deprecated\",\"url\":\"This bower version is deprecated. Please update it: npm update -g bower\"}"

DeprecationBody ==
    "[{\"name\":\"deprecated\",\"url\":\"This bower version is deprecated. Please update it: npm update -g bower\"}]"

(***************************************************************************)
(* String functions.                                                       *)
(***************************************************************************)
\* strings.HasPrefix
HasPrefix(s, prefix) ==
    /\ Len(s) >= Len(prefix)
    /\ SubSeq(s, 1, Len(prefix)) = prefix

\* strings.Split with a one-character separator: the substrings between
\* the separators, one more than there are separators.
Split(s, sep) ==
    LET seps == {j \in 1..Len(s) : SubSeq(s, j, j) = sep}
        n == Cardinality(seps)
        pos(k) == IF k = 0 THEN 0
                  ELSE IF k = n + 1 THEN Len(s) + 1
                  ELSE CHOOSE j \in seps :
                         Cardinality({i \in seps : i < j}) = k - 1
    IN  [k \in 1..(n + 1) |-> SubSeq(s, pos(k - 1) + 1, pos(k) - 1)]

\* encoding/json's escaping of one character of a string value
EscapeChar(c) ==
    CASE c = "\"" -> "\\\""
      [] c = "\\" -> "\\\\"
      [] c = "<"  -> "\\u003c"
      [] c = ">"  -> "\\u003e"
      [] c = "&"  -> "\\u0026"
      [] OTHER    -> c

\* The characters encoding/json escapes in a string value.
Escaped == {"\"", "\\", "<", ">", "&"}

RECURSIVE EscapeString(_)
EscapeString(s) ==
    LET at == {j \in 1..Len(s) : SubSeq(s, j, j) \in Escaped}
        j == CHOOSE k \in at : \A l \in at : k <= l
    IN  IF at = {} THEN s
        ELSE SubSeq(s, 1, j - 1) \o EscapeChar(SubSeq(s, j, j))
                \o EscapeString(SubSeq(s, j + 1, Len(s)))

\* Mutant: the values are written without escaping.
MarshalUnescaped(name, url) ==
    [data |-> "{\"name\":\"" \o name \o "\",\"url\":\"" \o url \o "\"}",
     err  |-> FALSE]

\* json.Marshal(Package{Name: name, URL: url}): the fields in declaration
\* order under their json tags; it cannot fail for two strings.
Marshal(name, url) ==
    [data |-> "{\"name\":\"" \o EscapeString(name) \o "\",\"url\":\""
                 \o EscapeString(url) \o "\"}",
     err  |-> FALSE]

(***************************************************************************)
(* Requests, responses, the store and the cache.                           *)
(***************************************************************************)
Hosts == MigratedHosts \cup {"bower.herokuapp.com"}
Segments == {"packages", "search", "a", ""}
Queries == {"", "q=a&b"}

RECURSIVE PathsOfLen(_)
PathsOfLen(n) ==
    IF n = 0 THEN {""}
    ELSE {p \o "/" \o s : p \in PathsOfLen(n - 1), s \in Segments}

Paths == UNION {PathsOfLen(n) : n \in 1..MaxSegs}

\* A request in origin form (GET /path), as a client of the gateway sends
\* it: the URL has neither scheme nor host.
OriginForm(m, h, p, q) ==
    [method |-> m, host |-> h, path |-> p, query |-> q,
     scheme |-> "", urlHost |-> ""]

\* A request in absolute form (GET http://host/path), as a client that uses
\* the gateway as its HTTP proxy sends it: net/http takes r.Host from the URL.
AbsoluteForm(m, h, p, q) ==
    [method |-> m, host |-> h, path |-> p, query |-> q,
     scheme |-> "http", urlHost |-> h]

\* A CONNECT request (authority form).
ConnectForm(h) ==
    [method |-> "CONNECT", host |-> h, path |-> "", query |-> "",
     scheme |-> "", urlHost |-> h]

Requests ==
    {OriginForm(m, h, p, q) :
        m \in {"GET", "POST"}, h \in Hosts, p \in Paths, q \in Queries}
    \cup {AbsoluteForm(m, h, p, q) :
        m \in {"GET", "POST"}, h \in Hosts, p \in Paths, q \in Queries}
    \cup {ConnectForm(h) : h \in Hosts}

\* Lookup requests: GET on a migrated host for "/packages" followed by up
\* to MaxNameSegs further segments.
NameSegments == {"a", "b", "c", ""}

RECURSIVE LookupPathsOfLen(_)
LookupPathsOfLen(n) ==
    IF n = 0 THEN {"/packages"}
    ELSE {p \o "/" \o s : p \in LookupPathsOfLen(n - 1), s \in NameSegments}

LookupRequests ==
    {OriginForm("GET", "registry.bower.io", p, "") :
        p \in UNION {LookupPathsOfLen(n) : n \in 1..MaxNameSegs}}

\* The requests of the concurrent specification: one of each class.
ConcRequests ==
    {OriginForm("GET", "bower.herokuapp.com", "/a", "q=a&b"),
     OriginForm("GET", "bower.herokuapp.com", "/packages/search/a", ""),
     OriginForm("GET", "registry.bower.io", "/packages", ""),
     OriginForm("GET", "registry.bower.io", "/packages/a", ""),
     OriginForm("POST", "registry.bower.io", "/packages", "")}

\* The requests of the specification with fairness: those of ConcRequests
\* in origin form and in absolute form, and the CONNECT requests.
LiveRequests ==
    ConcRequests
    \cup {AbsoluteForm(r.method, r.host, r.path, r.query) : r \in ConcRequests}
    \cup {ConnectForm(h) : h \in Hosts}

NoReq == OriginForm("", "", "", "")
NoResp == [status |-> 0, body |-> "", header |-> {}, by |-> "none"]

\* goproxy.NewResponse(r, contentType, status, body)
NewResponse(contentType, status, body, by) ==
    [status |-> status, body |-> body,
     header |-> {<<"Content-Type", contentType>>}, by |-> by]

\* response.Header.Add / response.Header.Set on a header not yet present
HeaderAdd(response, h) ==
    [response EXCEPT !.header = @ \cup {h}]

\* Rows of the packages table; name is its key.
Rows ==
    {[name |-> "a", url |-> "git://github.com/a/a.git"],
     [name |-> "search", url |-> "https://h/?x=<1>&y=\"z\\\""]}
Stores == SUBSET Rows

\* Contents of the memcached server.
Caches ==
    {<<>>,
     (CacheKey :> "[{\"name\":\"a\",\"url\":\"git://github.com/a/a.git\"}]"),
     (CacheKey :> "not json") @@ ("package" :> "[]")}

\* What the local node application (or, for an absolute-form request, the
\* request's own target) answers.
UpstreamResponses ==
    {[status |-> StatusOK, body |-> "upstream", header |-> {}, by |-> "relay"],
     [status |-> StatusOK, body |-> "upstream", header |-> {CacheControl},
      by |-> "relay"],
     [status |-> StatusNotFound, body |-> "upstream", header |-> {}, by |-> "relay"]}

Tasks == 1..NumTasks

VARIABLES
    store,      \* the packages table
    cache,      \* the memcached contents
    pc,         \* per task: where its request is
    req,        \* per task: the request (*http.Request)
    resp,       \* per task: the response written to the client
    elapsed,    \* per task: seconds spent in time.Sleep, up to SleepSeconds
    relayedTo,  \* per task: the origin the request was forwarded to, or ""
    callErr,    \* per task: the err of its cn.Get or pool.QueryRow call, or ""
    log,        \* per task: the calls made for the request, in order
    queries,    \* per task: the names its request looked up in the store
    sent,       \* per task: the request as forwarded, or NoReq
    main        \* the main goroutine: its position and the global handles

vars == <<store, cache, pc, req, resp, elapsed, relayedTo, callErr, log,
          queries, sent, main>>

\* The calls of main that can fail, in program order (lines 47-129).
MainSteps ==
    <<"mc.Dial", "cn.Auth", "pgx.ParseURI", "pgx.NewConnPool",
      "exec.LookPath", "cmd.Start", "http.ListenAndServe">>

\* MEMCACHEDCLOUD_USERNAME and MEMCACHEDCLOUD_PASSWORD (lines 54-55).
Credentials == {"", "secret"}

\* main at its first statement: cn, pool and proxy are nil (lines 17-21).
Unstarted(username, password) ==
    [pc |-> MainSteps[1], calls |-> <<>>, failed |-> <<>>,
     username |-> username, password |-> password,
     cn |-> "nil", pool |-> "nil", node |-> "none", proxy |-> "nil"]

\* main blocked in http.ListenAndServe with every handle set.
Started ==
    [pc |-> "serving",
     calls |-> <<"mc.Dial", "pgx.ParseURI", "pgx.NewConnPool",
                 "exec.LookPath", "cmd.Start", "http.ListenAndServe">>,
     failed |-> <<>>, username |-> "", password |-> "",
     cn |-> "open", pool |-> "open", node |-> "running",
     proxy |-> "configured"]

\* No connection has a request in hand.
Idle ==
    /\ pc = [t \in Tasks |-> "idle"]
    /\ req = [t \in Tasks |-> NoReq]
    /\ resp = [t \in Tasks |-> NoResp]
    /\ elapsed = [t \in Tasks |-> 0]
    /\ relayedTo = [t \in Tasks |-> ""]
    /\ callErr = [t \in Tasks |-> ""]
    /\ log = [t \in Tasks |-> <<>>]
    /\ queries = [t \in Tasks |-> <<>>]
    /\ sent = [t \in Tasks |-> NoReq]

\* main has reached http.ListenAndServe (line 129) and the server listens.
Init ==
    /\ store \in Stores
    /\ cache \in Caches
    /\ Idle
    /\ main = Started

(***************************************************************************)
(* The predicates and handlers of registry.go.                             *)
(***************************************************************************)
\* url.URL.IsAbs
IsAbs(r) == r.scheme # ""

\* Mutant: only one of the two migrated hosts is exempted.
IsMigratableOneHost(r) ==
    /\ r.method = "GET"
    /\ r.host # "registry.bower.io"

\* The condition of the first handler (line 105).
IsMigratable(r) ==
    /\ r.method = "GET"
    /\ r.host # "registry.bower.io"
    /\ r.host # "components.bower.io"

\* The condition of the deprecation branch (line 106).
IsSearch(r) == HasPrefix(r.path, SearchPrefix)

DeprecationResponse ==
    NewResponse("application/json", StatusOK, DeprecationBody, "redirectHandler")

\* Mutant: the query string is dropped.
RedirectTargetNoQuery(r) == UpstreamOrigin \o r.path

RedirectTarget(r) ==
    LET target == UpstreamOrigin \o r.path
    IN  IF Len(r.query) > 0 THEN target \o "?" \o r.query ELSE target

RedirectResponse(r) ==
    HeaderAdd(NewResponse("application/json", StatusPermanentRedirect, "",
                          "redirectHandler"),
              <<"Location", RedirectTarget(r)>>)

\* Mutant: the handler does not wait.
SleepOverAtOnce(e) == e >= 0

\* Whether time.Sleep(10 * time.Second) may return after e seconds.
SleepOver(e) == e >= SleepSeconds

pathIs(path, r) ==
    r.method = "GET" /\ r.path = path

\* Mutant: the search paths are not excluded.
urlHasPrefixWithSearch(prefix, r) ==
    r.method = "GET" /\ HasPrefix(r.path, prefix)

urlHasPrefix(prefix, r) ==
    LET isGET == r.method = "GET"
        hasPrefix == HasPrefix(r.path, prefix)
        isSearch == HasPrefix(r.path, "/packages/search/")
    IN  isGET /\ hasPrefix /\ ~isSearch

\* Mutant: the element that follows "packages" is taken.
PackageNameAfterPrefix(r) ==
    LET elements == Split(r.path, "/")
    IN  elements[3]

\* The name getPackage queries: the last element of the split path.
PackageName(r) ==
    LET elements == Split(r.path, "/")
    IN  elements[Len(elements)]

\* pool.QueryRow("getPackage", packageName).Scan(&name, &url): the row of
\* that name, pgx.ErrNoRows when there is none, or any other failure.
QueryRow(packageName) ==
    LET rows == {row \in store : row.name = packageName}
    IN  {[err |-> "nil", name |-> row.name, url |-> row.url] : row \in rows}
        \cup (IF rows = {}
              THEN {[err |-> "ErrNoRows", name |-> "", url |-> ""]}
              ELSE {})
        \cup {[err |-> e, name |-> "", url |-> ""] :
                 e \in {"connection refused", "scan failed"}}

\* cn.Get(key): the value, mc.ErrNotFound, or any other failure.
CacheGet(key) ==
    (IF key \in DOMAIN cache
     THEN {[err |-> "nil", val |-> cache[key]]}
     ELSE {[err |-> "ErrNotFound", val |-> ""]})
    \cup {[err |-> "connection refused", val |-> ""]}

\* Mutant: the 500 body carries the store's error.
getPackageLeaky(q) ==
    IF q.err # "nil"
    THEN IF q.err = "ErrNoRows"
         THEN NewResponse("text/html", StatusNotFound, "Package not found",
                          "getPackage")
         ELSE NewResponse("text/html", StatusInternalServerError,
                          "Internal server error: " \o q.err, "getPackage")
    ELSE HeaderAdd(NewResponse("application/json", StatusOK,
                               Marshal(q.name, q.url).data, "getPackage"),
                   CacheControl)

\* getPackage after the query (lines 148-161).
getPackage(q) ==
    IF q.err # "nil"
    THEN IF q.err = "ErrNoRows"
         THEN NewResponse("text/html", StatusNotFound, "Package not found",
                          "getPackage")
         ELSE NewResponse("text/html", StatusInternalServerError,
                          "Internal server error", "getPackage")
    ELSE LET m == Marshal(q.name, q.url)
         IN  IF m.err
             THEN NewResponse("text/html", StatusInternalServerError,
                              "Internal server error", "getPackage")
             ELSE HeaderAdd(NewResponse("application/json", StatusOK, m.data,
                                        "getPackage"),
                            CacheControl)

\* Mutant: a miss fills the key.
CacheAfterGetFill(key) ==
    IF key \in DOMAIN cache THEN cache ELSE (key :> "[]") @@ cache

\* cn.Get (line 165) is a read: the server's contents stay as they are.
CacheAfterGet(key) == cache

\* Mutant: the cached list is returned without the cache directive.
listPackagesNoCacheControl(g) ==
    IF g.err # "nil"
    THEN NoResp
    ELSE NewResponse("application/json", StatusOK, g.val, "listPackages")

\* listPackages after the cache read (lines 166-171); NoResp is nil.
listPackages(g) ==
    IF g.err # "nil"
    THEN NoResp
    ELSE HeaderAdd(NewResponse("application/json", StatusOK, g.val,
                               "listPackages"),
                   CacheControl)

(***************************************************************************)
(* The steps of one request.                                               *)
(***************************************************************************)
\* Mutant: the redirect handler is registered last.
HandlersRedirectLast == <<"listPackages", "getPackage", "redirectHandler">>

\* Mutant: the list handler is registered before the redirect handler.
HandlersListFirst == <<"listPackages", "redirectHandler", "getPackage">>

\* proxy.reqHandlers: the handlers in the order main registers them
\* (lines 103, 124, 125).
Handlers == <<"redirectHandler", "listPackages", "getPackage">>

\* goproxy's filterRequest: the handlers are called in order until one
\* returns a response; after the last, the request is forwarded.
NextHandler(h) ==
    LET i == CHOOSE j \in 1..Len(Handlers) : Handlers[j] = h
    IN  IF i < Len(Handlers) THEN Handlers[i + 1] ELSE "RoundTrip"

Logged(t, calls) == [log EXCEPT ![t] = @ \o calls]

\* The server listens: a connection's goroutine reads the next request.
Accept(t, inputs) ==
    /\ main.pc = "serving"
    /\ pc[t] = "idle"
    /\ pc' = [pc EXCEPT ![t] = "ServeHTTP"]
    /\ \E r \in inputs : req' = [req EXCEPT ![t] = r]
    /\ UNCHANGED <<store, cache, resp, elapsed, relayedTo, callErr, log,
                   queries, sent, main>>

\* goproxy's ProxyHttpServer.ServeHTTP: CONNECT is tunnelled, a request
\* whose URL is not absolute goes to the NonproxyHandler, any other to the
\* request handlers.
ServeHTTP(t) ==
    /\ pc[t] = "ServeHTTP"
    /\ pc' = [pc EXCEPT ![t] =
                IF req[t].method = "CONNECT" THEN "handleHttps"
                ELSE IF ~IsAbs(req[t]) THEN "nonProxy"
                ELSE Handlers[1]]
    /\ log' = Logged(t, <<"ServeHTTP">>)
    /\ UNCHANGED <<store, cache, req, resp, elapsed, relayedTo, callErr,
                   queries, sent, main>>

\* goproxy's handling of CONNECT: a tunnel to the requested authority.
HandleHttps(t) ==
    /\ pc[t] = "handleHttps"
    /\ \E ok \in BOOLEAN :
         resp' = [resp EXCEPT ![t] =
                    [status |-> IF ok THEN StatusOK ELSE 502, body |-> "",
                     header |-> {}, by |-> "handleHttps"]]
    /\ relayedTo' = [relayedTo EXCEPT ![t] = req[t].urlHost]
    /\ pc' = [pc EXCEPT ![t] = "done"]
    /\ log' = Logged(t, <<"handleHttps">>)
    /\ UNCHANGED <<store, cache, req, elapsed, callErr, queries, sent, main>>

\* Mutant: the Host header is rewritten with the URL.
nonProxySetsHost(t) ==
    /\ pc[t] = "nonProxy"
    /\ req' = [req EXCEPT ![t].scheme = DelegateScheme,
                          ![t].urlHost = DelegateHost,
                          ![t].host = DelegateHost]
    /\ pc' = [pc EXCEPT ![t] = "ServeHTTP"]
    /\ log' = Logged(t, <<"nonProxy">>)
    /\ UNCHANGED <<store, cache, resp, elapsed, relayedTo, callErr,
                   queries, sent, main>>

\* Mutant: the scheme is not set, so the URL stays without one.
nonProxyKeepsScheme(t) ==
    /\ pc[t] = "nonProxy"
    /\ req' = [req EXCEPT ![t].urlHost = DelegateHost]
    /\ pc' = [pc EXCEPT ![t] = "ServeHTTP"]
    /\ log' = Logged(t, <<"nonProxy">>)
    /\ UNCHANGED <<store, cache, resp, elapsed, relayedTo, callErr,
                   queries, sent, main>>

\* nonProxy (lines 132-136).
nonProxy(t) ==
    /\ pc[t] = "nonProxy"
    /\ req' = [req EXCEPT ![t].scheme = DelegateScheme,
                          ![t].urlHost = DelegateHost]
    /\ pc' = [pc EXCEPT ![t] = "ServeHTTP"]
    /\ log' = Logged(t, <<"nonProxy">>)
    /\ UNCHANGED <<store, cache, resp, elapsed, relayedTo, callErr,
                   queries, sent, main>>

\* The first request handler up to its sleep (lines 104-111, 121).
RedirectHandler(t) ==
    /\ pc[t] = "redirectHandler"
    /\ log' = Logged(t, IF IsMigratable(req[t])
                         THEN <<"redirectHandler", "redirect">>
                         ELSE <<"redirectHandler">>)
    /\ IF IsMigratable(req[t])
       THEN IF IsSearch(req[t])
            THEN /\ resp' = [resp EXCEPT ![t] = DeprecationResponse]
                 /\ pc' = [pc EXCEPT ![t] = "done"]
            ELSE /\ pc' = [pc EXCEPT ![t] = "sleep"]
                 /\ resp' = resp
       ELSE /\ pc' = [pc EXCEPT ![t] = NextHandler("redirectHandler")]
            /\ resp' = resp
    /\ UNCHANGED <<store, cache, req, elapsed, relayedTo, callErr,
                   queries, sent, main>>

\* Mutant: the sleeps are serialized, one goroutine's clock runs at a time.
TickOneAtATime ==
    /\ \E t \in Tasks : pc[t] = "sleep" /\ ~SleepOver(elapsed[t])
    /\ LET first == CHOOSE t \in Tasks :
                      /\ pc[t] = "sleep" /\ ~SleepOver(elapsed[t])
                      /\ \A u \in Tasks :
                            pc[u] = "sleep" /\ ~SleepOver(elapsed[u]) => t <= u
       IN  elapsed' = [elapsed EXCEPT ![first] = @ + 1]
    /\ UNCHANGED <<store, cache, pc, req, resp, relayedTo, callErr, log,
                   queries, sent, main>>

\* A second passes: for every goroutine in time.Sleep alike.
Tick ==
    /\ \E t \in Tasks : pc[t] = "sleep" /\ ~SleepOver(elapsed[t])
    /\ elapsed' = [t \in Tasks |->
                     IF pc[t] = "sleep" /\ ~SleepOver(elapsed[t])
                     THEN elapsed[t] + 1 ELSE elapsed[t]]
    /\ UNCHANGED <<store, cache, pc, req, resp, relayedTo, callErr, log,
                   queries, sent, main>>

\* The first request handler after its sleep (lines 112-118).
RedirectAfterSleep(t) ==
    /\ pc[t] = "sleep"
    /\ SleepOver(elapsed[t])
    /\ resp' = [resp EXCEPT ![t] = RedirectResponse(req[t])]
    /\ pc' = [pc EXCEPT ![t] = "done"]
    /\ UNCHANGED <<store, cache, req, elapsed, relayedTo, callErr, log,
                   queries, sent, main>>

\* The second request handler (line 124): listPackages under pathIs.
ListPackages(t) ==
    /\ pc[t] = "listPackages"
    /\ IF pathIs(ListPath, req[t])
       THEN \E g \in CacheGet(CacheKey) :
              /\ log' = Logged(t, <<"pathIs", "listPackages", "cn.Get">>)
              /\ callErr' = [callErr EXCEPT ![t] = g.err]
              /\ IF listPackages(g) = NoResp
                 THEN /\ pc' = [pc EXCEPT ![t] = NextHandler("listPackages")]
                      /\ resp' = resp
                 ELSE /\ pc' = [pc EXCEPT ![t] = "done"]
                      /\ resp' = [resp EXCEPT ![t] = listPackages(g)]
       ELSE /\ log' = Logged(t, <<"pathIs">>)
            /\ pc' = [pc EXCEPT ![t] = NextHandler("listPackages")]
            /\ UNCHANGED <<resp, callErr>>
    /\ cache' = CacheAfterGet(CacheKey)
    /\ UNCHANGED <<store, req, elapsed, relayedTo, queries, sent, main>>

\* The third request handler (line 125): getPackage under urlHasPrefix.
GetPackage(t) ==
    /\ pc[t] = "getPackage"
    /\ IF urlHasPrefix(LookupPrefix, req[t])
       THEN \E q \in QueryRow(PackageName(req[t])) :
              /\ log' = Logged(t, <<"urlHasPrefix", "getPackage",
                                    "pool.QueryRow">>)
              /\ queries' = [queries EXCEPT ![t] =
                                Append(@, PackageName(req[t]))]
              /\ callErr' = [callErr EXCEPT ![t] = q.err]
              /\ pc' = [pc EXCEPT ![t] = "done"]
              /\ resp' = [resp EXCEPT ![t] = getPackage(q)]
       ELSE /\ log' = Logged(t, <<"urlHasPrefix">>)
            /\ pc' = [pc EXCEPT ![t] = NextHandler("getPackage")]
            /\ UNCHANGED <<resp, callErr, queries>>
    /\ UNCHANGED <<store, cache, req, elapsed, relayedTo, sent, main>>

\* No handler answered: goproxy forwards the request to its URL's origin
\* and relays the answer, or answers 500 when the round trip fails.
RoundTrip(t) ==
    /\ pc[t] = "RoundTrip"
    /\ relayedTo' = [relayedTo EXCEPT ![t] =
                       req[t].scheme \o "://" \o req[t].urlHost]
    /\ \E u \in UpstreamResponses
              \cup {[status |-> StatusInternalServerError,
                     body |-> "dial tcp: connection refused",
                     header |-> {}, by |-> "roundTripError"]} :
         resp' = [resp EXCEPT ![t] = u]
    /\ sent' = [sent EXCEPT ![t] = req[t]]
    /\ pc' = [pc EXCEPT ![t] = "done"]
    /\ log' = Logged(t, <<"RoundTrip">>)
    /\ UNCHANGED <<store, cache, req, elapsed, callErr, queries, main>>

\* The response is written and the goroutine reads the next request.
Finish(t) ==
    /\ pc[t] = "done"
    /\ pc' = [pc EXCEPT ![t] = "idle"]
    /\ req' = [req EXCEPT ![t] = NoReq]
    /\ resp' = [resp EXCEPT ![t] = NoResp]
    /\ elapsed' = [elapsed EXCEPT ![t] = 0]
    /\ relayedTo' = [relayedTo EXCEPT ![t] = ""]
    /\ callErr' = [callErr EXCEPT ![t] = ""]
    /\ log' = [log EXCEPT ![t] = <<>>]
    /\ queries' = [queries EXCEPT ![t] = <<>>]
    /\ sent' = [sent EXCEPT ![t] = NoReq]
    /\ UNCHANGED <<store, cache, main>>

\* One connection, every request.
Next ==
    \/ Accept(1, Requests)
    \/ ServeHTTP(1)
    \/ HandleHttps(1)
    \/ nonProxy(1)
    \/ RedirectHandler(1)
    \/ Tick
    \/ RedirectAfterSleep(1)
    \/ ListPackages(1)
    \/ GetPackage(1)
    \/ RoundTrip(1)
    \/ Finish(1)

Spec == Init /\ [][Next]_vars

\* The steps that handle the request a connection has read.
Serve(t) ==
    \/ ServeHTTP(t)
    \/ HandleHttps(t)
    \/ nonProxy(t)
    \/ RedirectHandler(t)
    \/ RedirectAfterSleep(t)
    \/ ListPackages(t)
    \/ GetPackage(t)
    \/ RoundTrip(t)

\* One connection, a request of each class in each form.
NextLive ==
    \/ Accept(1, LiveRequests)
    \/ Serve(1)
    \/ Tick
    \/ Finish(1)

\* The scheduler runs every goroutine that can run, time passes, and the
\* calls to the store, the cache and the forwarding target return.
SpecLive ==
    /\ Init /\ [][NextLive]_vars
    /\ \A t \in Tasks : WF_vars(Serve(t))
    /\ WF_vars(Tick)

\* The concurrent specification starts with every package stored.
InitConc ==
    /\ Init
    /\ store = Rows

\* NumTasks connections served concurrently, one request of each class.
NextConc ==
    \/ \E t \in Tasks : Accept(t, ConcRequests)
    \/ \E t \in Tasks : ServeHTTP(t)
    \/ \E t \in Tasks : nonProxy(t)
    \/ \E t \in Tasks : RedirectHandler(t)
    \/ Tick
    \/ \E t \in Tasks : RedirectAfterSleep(t)
    \/ \E t \in Tasks : ListPackages(t)
    \/ \E t \in Tasks : GetPackage(t)
    \/ \E t \in Tasks : RoundTrip(t)
    \/ \E t \in Tasks : Finish(t)

SpecConc == InitConc /\ [][NextConc]_vars

\* One connection, the lookup requests: none of them is redirected, listed
\* or forwarded.
NextLookup ==
    \/ Accept(1, LookupRequests)
    \/ ServeHTTP(1)
    \/ nonProxy(1)
    \/ RedirectHandler(1)
    \/ ListPackages(1)
    \/ GetPackage(1)
    \/ Finish(1)

SpecLookup == Init /\ [][NextLookup]_vars

(***************************************************************************)
(* Startup: main from its first statement to http.ListenAndServe.          *)
(***************************************************************************)
\* Mutant: the error is logged and main goes on.
GoOnAfter(ok, next) == next

\* if err != nil { log.Fatalf(...) }: the process exits at a failed call.
FatalUnless(ok, next) == IF ok THEN next ELSE "fatal"

\* main makes the call it stands at; ok is whether the call succeeds and
\* handles the assignments to the globals a success makes.
Call(step, next, handles) ==
    /\ main.pc = step
    /\ \E ok \in BOOLEAN :
         main' = [(IF ok THEN handles ELSE main) EXCEPT
                    !.pc = FatalUnless(ok, next),
                    !.calls = Append(main.calls, step),
                    !.failed = IF ok THEN main.failed
                               ELSE Append(main.failed, step)]
    /\ UNCHANGED <<store, cache, pc, req, resp, elapsed, relayedTo, callErr,
                   log, queries, sent>>

\* mc.Dial (lines 47-52).
Dial == Call("mc.Dial", "cn.Auth", [main EXCEPT !.cn = "open"])

\* cn.Auth, called when both credentials are set (lines 54-60).
Auth ==
    IF main.username # "" /\ main.password # ""
    THEN Call("cn.Auth", "pgx.ParseURI", main)
    ELSE /\ main.pc = "cn.Auth"
         /\ main' = [main EXCEPT !.pc = "pgx.ParseURI"]
         /\ UNCHANGED <<store, cache, pc, req, resp, elapsed, relayedTo,
                        callErr, log, queries, sent>>

\* pgx.ParseURI (lines 62-65).
ParseURI == Call("pgx.ParseURI", "pgx.NewConnPool", main)

\* pgx.NewConnPool (lines 66-76).
NewConnPool ==
    Call("pgx.NewConnPool", "exec.LookPath", [main EXCEPT !.pool = "open"])

\* exec.LookPath("node") (lines 79-82).
LookPath == Call("exec.LookPath", "cmd.Start", main)

\* cmd.Start of the node application (lines 84-92).
Start == Call("cmd.Start", "goproxy.NewProxyHttpServer",
              [main EXCEPT !.node = "running"])

\* The goroutine in cmd.Wait (lines 93-97): the node application exits,
\* and the process with it when it exited with an error.
NodeExits ==
    /\ main.node = "running"
    /\ main.pc # "fatal"
    /\ \E ok \in BOOLEAN :
         main' = [main EXCEPT !.node = "exited",
                              !.pc = FatalUnless(ok, main.pc)]
    /\ UNCHANGED <<store, cache, pc, req, resp, elapsed, relayedTo, callErr,
                   log, queries, sent>>

\* The proxy is made and its handlers registered (lines 99-125).
NewProxyHttpServer ==
    /\ main.pc = "goproxy.NewProxyHttpServer"
    /\ main' = [main EXCEPT !.pc = "http.ListenAndServe",
                            !.proxy = "configured"]
    /\ UNCHANGED <<store, cache, pc, req, resp, elapsed, relayedTo, callErr,
                   log, queries, sent>>

\* http.ListenAndServe (lines 127-129): main stays in it while it serves.
ListenAndServe == Call("http.ListenAndServe", "serving", main)

\* The process starts with any setting of the credentials.
InitStartup ==
    /\ store = Rows
    /\ cache \in Caches
    /\ Idle
    /\ \E username \in Credentials, password \in Credentials :
         main = Unstarted(username, password)

\* The process from its start: main, then one connection while it serves.
NextStartup ==
    \/ Dial
    \/ Auth
    \/ ParseURI
    \/ NewConnPool
    \/ LookPath
    \/ Start
    \/ NodeExits
    \/ NewProxyHttpServer
    \/ ListenAndServe
    \/ /\ main.pc = "serving"
       /\ \/ Accept(1, ConcRequests)
          \/ ServeHTTP(1)
          \/ nonProxy(1)
          \/ RedirectHandler(1)
          \/ Tick
          \/ RedirectAfterSleep(1)
          \/ ListPackages(1)
          \/ GetPackage(1)
          \/ RoundTrip(1)
          \/ Finish(1)

SpecStartup == InitStartup /\ [][NextStartup]_vars

(***************************************************************************)
(* What a client reads out of a JSON body: a decoder for string values and *)
(* for arrays of {"name":...,"url":...} objects without white space.       *)
(***************************************************************************)
JsonFail == [ok |-> FALSE, val |-> "", next |-> 0]

Unescaped(h) ==
    CASE h = "003c" -> "<"
      [] h = "003e" -> ">"
      [] h = "0026" -> "&"
      [] OTHER      -> ""

\* The first position from i on of a character of set cs in s, or 0.
NextOf(s, i, cs) ==
    LET at == {j \in i..Len(s) : SubSeq(s, j, j) \in cs}
    IN  IF at = {} THEN 0 ELSE CHOOSE j \in at : \A k \in at : j <= k

RECURSIVE ReadString(_, _, _)
ReadString(s, i, acc) ==
    LET j == NextOf(s, i, {"\"", "\\"})
        got == acc \o SubSeq(s, i, j - 1)
    IN  IF j = 0 THEN JsonFail
        ELSE IF SubSeq(s, j, j) = "\""
        THEN [ok |-> TRUE, val |-> got, next |-> j + 1]
        ELSE IF j + 1 > Len(s) THEN JsonFail
        ELSE LET d == SubSeq(s, j + 1, j + 1)
             IN  IF d \in {"\"", "\\", "/"}
                 THEN ReadString(s, j + 2, got \o d)
                 ELSE IF d = "u" /\ j + 5 <= Len(s)
                           /\ Unescaped(SubSeq(s, j + 2, j + 5)) # ""
                 THEN ReadString(s, j + 6,
                                 got \o Unescaped(SubSeq(s, j + 2, j + 5)))
                 ELSE JsonFail

\* Whether literal lit stands at position i of s.
At(s, i, lit) ==
    /\ i + Len(lit) - 1 <= Len(s)
    /\ SubSeq(s, i, i + Len(lit) - 1) = lit

ParseString(s, i) ==
    IF At(s, i, "\"") THEN ReadString(s, i + 1, "") ELSE JsonFail

\* The object at position i of s: [ok, val: [name, url], next].
ParsePackage(s, i) ==
    LET k1 == ParseString(s, i + 1)
        v1 == ParseString(s, k1.next + 1)
        k2 == ParseString(s, v1.next + 1)
        v2 == ParseString(s, k2.next + 1)
        bad == [ok |-> FALSE, val |-> [name |-> "", url |-> ""], next |-> 0]
    IN  IF ~At(s, i, "{") THEN bad
        ELSE IF ~(k1.ok /\ k1.val = "name" /\ At(s, k1.next, ":")) THEN bad
        ELSE IF ~(v1.ok /\ At(s, v1.next, ",")) THEN bad
        ELSE IF ~(k2.ok /\ k2.val = "url" /\ At(s, k2.next, ":")) THEN bad
        ELSE IF ~(v2.ok /\ At(s, v2.next, "}")) THEN bad
        ELSE [ok |-> TRUE, val |-> [name |-> v1.val, url |-> v2.val],
              next |-> v2.next + 1]

\* The body as one object: it must end where the object ends.
ParsePackageBody(s) ==
    LET p == ParsePackage(s, 1)
    IN  [ok |-> p.ok /\ p.next = Len(s) + 1, val |-> p.val]

RECURSIVE ReadPackages(_, _, _)
ReadPackages(s, i, acc) ==
    LET p == ParsePackage(s, i)
    IN  IF ~p.ok THEN [ok |-> FALSE, val |-> <<>>]
        ELSE IF At(s, p.next, ",")
        THEN ReadPackages(s, p.next + 1, Append(acc, p.val))
        ELSE [ok |-> At(s, p.next, "]") /\ p.next = Len(s),
              val |-> Append(acc, p.val)]

\* The body as an array of objects.
ParsePackageArray(s) ==
    IF s = "[]" THEN [ok |-> TRUE, val |-> <<>>]
    ELSE IF At(s, 1, "[") THEN ReadPackages(s, 2, <<>>)
    ELSE [ok |-> FALSE, val |-> <<>>]

\* Whether the task has made the call for its request.
Called(t, call) == \E i \in 1..Len(log[t]) : log[t][i] = call

\* The values of a header of the task's response.
HeaderValues(t, name) == {h[2] : h \in {g \in resp[t].header : g[1] = name}}

\* A GET request on a host that is not one of the two migrated hosts.
OnLegacyHost(r) ==
    /\ r.method = "GET"
    /\ r.host \notin {"registry.bower.io", "components.bower.io"}

(***************************************************************************)
(* The claims.                                                             *)
(***************************************************************************)
\* C1: a request that satisfies both the redirect predicate and the
\* list-path predicate (GET /packages on a non-migrated host) is answered by
\* the redirect rule: 308, never the 200 list response, and the list cache
\* is not read for it.
C1_RedirectWinsOverList ==
    \A t \in Tasks :
        OnLegacyHost(req[t]) /\ req[t].path = "/packages"
        => /\ ~Called(t, "listPackages")
           /\ ~Called(t, "cn.Get")
           /\ resp[t].status # 200
           /\ pc[t] = "done"
              => resp[t].status = 308 /\ resp[t].by = "redirectHandler"

C1_Witness ==
    \E t \in Tasks :
        /\ pc[t] = "done"
        /\ OnLegacyHost(req[t]) /\ req[t].path = "/packages"
        /\ resp[t].status = 308
        /\ cache # <<>>

\* C2: a request whose host is registry.bower.io or components.bower.io,
\* whatever its method, path and query, never makes the redirect rule fire:
\* it is never suspended and the gateway never answers it with the
\* deprecation JSON or a 308.
C2_MigratedHostsNeverRedirected ==
    \A t \in Tasks :
        req[t].host \in {"registry.bower.io", "components.bower.io"}
        => /\ pc[t] # "sleep"
           /\ elapsed[t] = 0
           /\ resp[t].by # "redirectHandler"
           /\ resp[t].by # "relay"
              => resp[t].status # 308 /\ resp[t].body # DeprecationBody

C2_Witness ==
    \E t \in Tasks :
        /\ pc[t] = "done"
        /\ req[t].host = "components.bower.io"
        /\ req[t].method = "GET"
        /\ req[t].path = "/packages/search/a"
        /\ Called(t, "redirectHandler")

\* C3: a GET whose path starts with /packages/search/ on a non-migrated host
\* is answered 200 with a JSON array of exactly one object, named
\* "deprecated" and with a non-empty url, without suspension and without a
\* read of the store or the cache.
C3_SearchDeprecation ==
    \A t \in Tasks :
        OnLegacyHost(req[t]) /\ HasPrefix(req[t].path, "/packages/search/")
        => /\ pc[t] # "sleep"
           /\ elapsed[t] = 0
           /\ ~Called(t, "cn.Get")
           /\ ~Called(t, "pool.QueryRow")
           /\ pc[t] = "done"
              => /\ resp[t].status = 200
                 /\ LET a == ParsePackageArray(resp[t].body)
                    IN  /\ a.ok
                        /\ Len(a.val) = 1
                        /\ a.val[1].name = "deprecated"
                        /\ a.val[1].url # ""

C3_Witness ==
    \E t \in Tasks :
        /\ pc[t] = "done"
        /\ OnLegacyHost(req[t])
        /\ req[t].path = "/packages/search/a"
        /\ resp[t].status = 200

\* C4: a GET on a non-migrated host whose path does not start with
\* /packages/search/ is answered 308 with Location equal to
\* "https://registry.bower.io" + path + ("?" + raw query, when not empty).
C4_RedirectLocation ==
    \A t \in Tasks :
        /\ OnLegacyHost(req[t])
        /\ ~HasPrefix(req[t].path, "/packages/search/")
        /\ pc[t] = "done"
        => /\ resp[t].status = 308
           /\ HeaderValues(t, "Location") =
                {"https://registry.bower.io" \o req[t].path
                   \o (IF req[t].query = "" THEN "" ELSE "?" \o req[t].query)}

C4_Witness ==
    \E t \in Tasks :
        /\ pc[t] = "done"
        /\ OnLegacyHost(req[t])
        /\ req[t].path = "/packages/search"
        /\ req[t].query = "q=a&b"
        /\ HeaderValues(t, "Location") =
             {"https://registry.bower.io/packages/search?q=a&b"}

\* C5: the 308 of a GET on a non-migrated host outside /packages/search/ is
\* returned only after the request's own suspension, counted from the start
\* of the handler, has lasted the full 10 seconds.
C5_RedirectAfterFullDelay ==
    \A t \in Tasks :
        /\ pc[t] = "redirectHandler" => elapsed[t] = 0
        /\ OnLegacyHost(req[t]) /\ ~HasPrefix(req[t].path, "/packages/search/")
           => /\ resp[t] # NoResp => elapsed[t] = 10
              /\ pc[t] = "done" => resp[t].status = 308 /\ elapsed[t] = 10

C5_Witness ==
    \E t \in Tasks :
        /\ pc[t] = "done"
        /\ resp[t].status = 308
        /\ elapsed[t] = 10
        /\ req[t].scheme = "http" /\ req[t].urlHost = "bower.herokuapp.com"

\* Whether the task can take the step its request is at.
CanStep(t) ==
    CASE pc[t] = "idle"            -> ENABLED Accept(t, ConcRequests)
      [] pc[t] = "ServeHTTP"       -> ENABLED ServeHTTP(t)
      [] pc[t] = "nonProxy"        -> ENABLED nonProxy(t)
      [] pc[t] = "redirectHandler" -> ENABLED RedirectHandler(t)
      [] pc[t] = "listPackages"    -> ENABLED ListPackages(t)
      [] pc[t] = "getPackage"      -> ENABLED GetPackage(t)
      [] pc[t] = "RoundTrip"       -> ENABLED RoundTrip(t)
      [] pc[t] = "done"            -> ENABLED Finish(t)
      [] pc[t] = "sleep"           ->
            IF elapsed[t] >= 10 THEN ENABLED RedirectAfterSleep(t)
            ELSE ENABLED Tick
      [] OTHER                     -> FALSE

\* A second that passes for one suspended request passes for every one.
SleepsRunTogether ==
    (\E u \in Tasks : pc[u] = "sleep" /\ elapsed'[u] > elapsed[u])
    => \A t \in Tasks :
          pc[t] = "sleep" /\ elapsed[t] < 10 => elapsed'[t] = elapsed[t] + 1

\* C6: the suspension blocks only the task of its request: whatever other
\* requests are suspended, every request can take its next step, a request
\* whose 10 seconds are over can be answered, and the suspended requests'
\* delays run together, not one after the other.
C6_ThrottleIsPerRequest ==
    /\ \A t \in Tasks : CanStep(t)
    /\ ~ENABLED (NextConc /\ ~SleepsRunTogether)

C6_Witness ==
    \E t, u \in Tasks :
        /\ t # u
        /\ pc[t] = "sleep" /\ elapsed[t] = 3
        /\ pc[u] = "sleep" /\ elapsed[u] = 7

\* The rows of the store under the name the request's path ends in.
RowsFor(t) == {row \in store : row.name = PackageName(req[t])}

\* Whether s holds none of the characters JSON escapes.
Plain(s) == \A j \in 1..Len(s) : SubSeq(s, j, j) \notin Escaped

\* C7: when the lookup handler runs for name x, the store holds a row (x, u)
\* and the query returns it, the response is 200, its body is the JSON
\* object of exactly that name and url ({"name":"x","url":"u"}), and it
\* carries Cache-Control: public, max-age=604800.
C7_LookupSuccess ==
    \A t \in Tasks :
        Called(t, "getPackage") /\ RowsFor(t) # {}
        => /\ callErr[t] # "ErrNoRows"
           /\ resp[t].status # 404
           /\ callErr[t] = "nil"
              => \E row \in RowsFor(t) :
                    /\ pc[t] = "done"
                    /\ resp[t].status = 200
                    /\ ParsePackageBody(resp[t].body)
                         = [ok |-> TRUE, val |-> row]
                    /\ Plain(row.name) /\ Plain(row.url)
                       => resp[t].body =
                            "{\"name\":\"" \o row.name \o "\",\"url\":\""
                               \o row.url \o "\"}"
                    /\ HeaderValues(t, "Cache-Control")
                         = {"public, max-age=604800"}

C7_Witness ==
    \E t \in Tasks :
        /\ pc[t] = "done"
        /\ req[t].path = "/packages/a/search"
        /\ resp[t].status = 200
        /\ ParsePackageBody(resp[t].body).val.url = "https://h/?x=<1>&y=\"z\\\""

\* C8: a lookup whose query finds no row is answered 404 "Package not found";
\* one whose query fails in any other way is answered 500 with the fixed
\* body "Internal server error", whatever the failure; a lookup has no other
\* error response.
C8_LookupErrors ==
    \A t \in Tasks :
        Called(t, "getPackage")
        => /\ pc[t] = "done"
           /\ callErr[t] = "ErrNoRows"
              => resp[t].status = 404 /\ resp[t].body = "Package not found"
           /\ callErr[t] \notin {"nil", "ErrNoRows"}
              => /\ resp[t].status = 500
                 /\ resp[t].body = "Internal server error"
           /\ RowsFor(t) = {} => callErr[t] # "nil"
           /\ resp[t].status # 200
              => \/ resp[t].status = 404 /\ resp[t].body = "Package not found"
                 \/ resp[t].status = 500
                    /\ resp[t].body = "Internal server error"

C8_Witness ==
    \E t \in Tasks :
        /\ pc[t] = "done" /\ Called(t, "getPackage")
        /\ callErr[t] = "scan failed"
        /\ resp[t].status = 500

\* C9: when the list handler runs and the cache returns the value held
\* under "packages", the response is 200, its body is that value unchanged,
\* and it carries Cache-Control: public, max-age=604800.
C9_ListHit ==
    \A t \in Tasks :
        Called(t, "listPackages") /\ callErr[t] = "nil"
        => /\ "packages" \in DOMAIN cache
           /\ pc[t] = "done"
           /\ resp[t].status = 200
           /\ resp[t].body = cache["packages"]
           /\ HeaderValues(t, "Cache-Control") = {"public, max-age=604800"}
           /\ resp[t].by = "listPackages"

C9_Witness ==
    \E t \in Tasks :
        /\ pc[t] = "done"
        /\ Called(t, "listPackages")
        /\ resp[t].status = 200
        /\ resp[t].body = "not json"

\* Whether the list handler ran for the task's request and its cache read
\* reported an absent key or failed.
ListDeclined(t) ==
    /\ Called(t, "listPackages")
    /\ callErr[t] \in {"ErrNotFound", "connection refused"}

\* C10: when the list handler runs and the cache read reports an absent key
\* or any error, the handler yields no response, both cases alike, no error
\* page is made of it, and the request falls through to the delegation
\* path, which relays it to the local endpoint http://localhost:3001.
C10_ListMissDelegates ==
    \A t \in Tasks :
        ListDeclined(t)
        => /\ resp[t].by # "listPackages"
           /\ pc[t] # "done" => resp[t] = NoResp
           /\ pc[t] = "done"
              => /\ Called(t, "RoundTrip")
                 /\ Called(t, "nonProxy")
                 /\ relayedTo[t] = "http://localhost:3001"

\* What holds of C10 for the requests that reach the gateway in origin
\* form: they are relayed to the local endpoint.
C10_OriginFormDelegates ==
    \A t \in Tasks :
        ListDeclined(t) /\ Called(t, "nonProxy")
        => /\ resp[t].by \in {"none", "relay", "roundTripError"}
           /\ pc[t] # "done" => resp[t] = NoResp
           /\ pc[t] = "done"
              => /\ Called(t, "RoundTrip")
                 /\ relayedTo[t] = "http://localhost:3001"

\* Whether the string begins with the given characters.
Begins(s, first) ==
    Len(s) >= Len(first) /\ SubSeq(s, 1, Len(first)) = first

\* A GET request on one of the two migrated hosts.
OnMigratedHost(r) ==
    r.method = "GET" /\ r.host \in {"registry.bower.io", "components.bower.io"}

IsLastSegment(name, path) ==
    /\ \A j \in 1..Len(name) : SubSeq(name, j, j) # "/"
    /\ Len(path) > Len(name)
    /\ SubSeq(path, Len(path) - Len(name), Len(path)) = "/" \o name

\* C12: the name the lookup handler queries is the last '/'-delimited
\* segment of the request path, taken as it stands: /packages/a/b/c gives
\* "c", a path that ends in '/' gives the empty name, and empty inner
\* segments do not change which segment is last.
C12_LastSegmentIsName ==
    \A t \in Tasks :
        Called(t, "getPackage")
        => /\ Len(queries[t]) = 1
           /\ IsLastSegment(queries[t][1], req[t].path)
           /\ req[t].path = "/packages/a/b/c" => queries[t] = <<"c">>
           /\ req[t].path = "/packages//c" => queries[t] = <<"c">>
           /\ req[t].path \in {"/packages/a/", "/packages/"}
              => queries[t] = <<"">>
           /\ SubSeq(req[t].path, Len(req[t].path), Len(req[t].path)) = "/"
              => queries[t] = <<"">>

C12_Witness ==
    \E t \in Tasks :
        /\ pc[t] = "done"
        /\ req[t].path = "/packages/a/b/c"
        /\ queries[t] = <<"c">>
        /\ resp[t].status = 404

\* A request that matches none of the three rules: any request that is not
\* a GET, and a GET on a migrated host for a path that is neither /packages
\* nor a lookup path.
MatchesNoRule(r) ==
    \/ r.method # "GET"
    \/ /\ OnMigratedHost(r)
       /\ r.path # "/packages"
       /\ ~(Begins(r.path, "/packages/")
            /\ ~Begins(r.path, "/packages/search/"))

\* Whether one of the gateway's own handlers made the task's response.
AnsweredByRule(t) ==
    resp[t].by \in {"redirectHandler", "listPackages", "getPackage"}

\* C13: every request that matches no rule is relayed to the local endpoint
\* http://localhost:3001 and is never answered by the redirect, deprecation,
\* list or lookup handlers.
C13_UnmatchedIsDelegated ==
    \A t \in Tasks :
        pc[t] = "done" /\ MatchesNoRule(req[t])
        => /\ relayedTo[t] = "http://localhost:3001"
           /\ ~AnsweredByRule(t)

\* What holds of C13: no request that matches no rule is answered by a
\* rule's handler, and those that arrive in origin form and are not CONNECT
\* requests are relayed to the local endpoint.
C13_OriginFormIsDelegated ==
    \A t \in Tasks :
        pc[t] = "done" /\ MatchesNoRule(req[t])
        => /\ ~AnsweredByRule(t)
           /\ Called(t, "nonProxy")
              => relayedTo[t] = "http://localhost:3001"

\* A step that writes the store or the cache, or changes one of the global
\* handles cn, pool and proxy.
WritesShared ==
    \/ store' # store
    \/ cache' # cache
    \/ main'.cn # main.cn
    \/ main'.pool # main.pool
    \/ main'.proxy # main.proxy

\* C14: request handling only reads the shared state: under any
\* interleaving no step of a request writes the store or the cache or
\* closes, replaces or reconfigures the store pool, the cache connection or
\* the proxy, which stay as startup set them.
C14_RequestsOnlyRead ==
    /\ [][~WritesShared]_vars
    /\ [](main.cn = "open" /\ main.pool = "open" /\ main.proxy = "configured")

C14_Witness ==
    \E t, u \in Tasks :
        /\ pc[t] = "done" /\ Len(queries[t]) = 1
        /\ resp[t].status = 200
        /\ pc[u] = "RoundTrip" /\ Called(u, "cn.Get")
        /\ callErr[u] = "ErrNotFound"

\* The log entries made when a rule's predicate is evaluated and when a
\* rule's handler is invoked, in registration order: the redirect rule, the
\* list rule, the lookup rule.
PredicateEvents == <<"redirectHandler", "pathIs", "urlHasPrefix">>
HandlerEvents == <<"redirect", "listPackages", "getPackage">>

\* The place of a call in the task's log, 0 when it was not made.
PosOf(t, call) ==
    IF \E i \in 1..Len(log[t]) : log[t][i] = call
    THEN CHOOSE i \in 1..Len(log[t]) : log[t][i] = call
    ELSE 0

\* How often the call occurs in the task's log.
Count(t, call) == Cardinality({i \in 1..Len(log[t]) : log[t][i] = call})

\* Whether the rule's predicate holds of the request.
RuleHolds(k, r) ==
    CASE k = 1 -> OnLegacyHost(r)
      [] k = 2 -> r.method = "GET" /\ r.path = "/packages"
      [] k = 3 -> /\ r.method = "GET"
                  /\ Begins(r.path, "/packages/")
                  /\ ~Begins(r.path, "/packages/search/")

\* The predicates are evaluated in registration order, each at most once,
\* and a rule's handler is invoked exactly when its predicate is evaluated
\* and holds, at once.
RulesInOrder(t) ==
    /\ \A k \in 1..3 :
          Count(t, PredicateEvents[k]) <= 1 /\ Count(t, HandlerEvents[k]) <= 1
    /\ \A l \in 2..3 :
          PosOf(t, PredicateEvents[l]) > 0
          => /\ PosOf(t, PredicateEvents[l - 1]) > 0
             /\ PosOf(t, PredicateEvents[l - 1]) < PosOf(t, PredicateEvents[l])
    /\ \A k \in 1..3 :
          /\ PosOf(t, HandlerEvents[k]) > 0 => PosOf(t, PredicateEvents[k]) > 0
          /\ PosOf(t, PredicateEvents[k]) > 0
             => (RuleHolds(k, req[t])
                 <=> PosOf(t, HandlerEvents[k])
                       = PosOf(t, PredicateEvents[k]) + 1)

\* C15 as stated: rules are tried in registration order and the first whose
\* predicate holds has its handler invoked; after a rule has matched no
\* later rule's predicate is evaluated and no later rule's handler is
\* invoked, also when the list handler yields no response.
C15_NothingAfterAMatch ==
    \A t \in Tasks :
        /\ RulesInOrder(t)
        /\ \A k, l \in 1..3 :
              PosOf(t, HandlerEvents[k]) > 0
              => /\ PosOf(t, PredicateEvents[l]) < PosOf(t, HandlerEvents[k])
                 /\ k # l => PosOf(t, HandlerEvents[l]) = 0

\* C15, amended: rules are tried in registration order and the first whose
\* predicate holds has its handler invoked; at most one rule's handler is
\* invoked for a request, and its response, if it makes one, is the
\* request's response with no rule tried after it.  Only after the list
\* handler yielded no response is a later predicate evaluated: that of the
\* lookup rule, which does not hold, and the request is forwarded.
C15_FirstResponseWins ==
    \A t \in Tasks :
        /\ RulesInOrder(t)
        /\ \A k, l \in 1..3 :
              PosOf(t, HandlerEvents[k]) > 0
              => /\ k # l => PosOf(t, HandlerEvents[l]) = 0
                 /\ PosOf(t, PredicateEvents[l]) > PosOf(t, HandlerEvents[k])
                    => /\ k = 2 /\ l = 3
                       /\ callErr[t] \in {"ErrNotFound", "connection refused"}
                       /\ ~RuleHolds(3, req[t])
                       /\ resp[t].by \in {"none", "relay", "roundTripError"}
        /\ AnsweredByRule(t)
           => \E k \in 1..3 :
                 /\ PosOf(t, HandlerEvents[k]) > 0
                 /\ \A l \in 1..3 :
                       PosOf(t, PredicateEvents[l]) < PosOf(t, HandlerEvents[k])
                 /\ resp[t].by = <<"redirectHandler", "listPackages",
                                   "getPackage">>[k]

C15_Witness ==
    \E t \in Tasks :
        /\ pc[t] = "done"
        /\ Called(t, "listPackages")
        /\ Called(t, "urlHasPrefix")
        /\ ~Called(t, "getPackage")
        /\ resp[t].by = "relay"

\* nonProxy is entered at most once and each rule is tried at most once;
\* after nonProxy the URL is absolute, so the dispatch it calls goes to the
\* rules and not to nonProxy again.
NoReentry(t) ==
    /\ Count(t, "nonProxy") <= 1
    /\ \A k \in 1..3 : Count(t, PredicateEvents[k]) <= 1
    /\ Count(t, "ServeHTTP") <= 1 + Count(t, "nonProxy")
    /\ Called(t, "nonProxy") => IsAbs(req[t])
    /\ Called(t, "nonProxy") /\ pc[t] # "ServeHTTP"
       => Count(t, "ServeHTTP") = 2 /\ log[t][Len(log[t])] # "nonProxy"

\* The response, once made, stays the request's response.
OneResponse(t) ==
    resp[t] # NoResp => pc[t] = "done" /\ (resp'[t] = resp[t] \/ pc'[t] = "idle")

\* C16: for every request nonProxy is entered at most once and the rules are
\* applied at most once, the call from nonProxy into the dispatch never
\* leads back into nonProxy, and, the store, cache and forwarding calls
\* returning, the request reaches the responded state and gets exactly one
\* response.
C16_NoReentryAndTermination ==
    /\ [](\A t \in Tasks : NoReentry(t))
    /\ [][\A t \in Tasks : OneResponse(t)]_vars
    /\ \A t \in Tasks :
          (pc[t] = "ServeHTTP") ~> (pc[t] = "done" /\ resp[t] # NoResp)

C16_Witness ==
    \E t \in Tasks :
        /\ pc[t] = "done"
        /\ Count(t, "nonProxy") = 1
        /\ Count(t, "ServeHTTP") = 2
        /\ Called(t, "urlHasPrefix")
        /\ resp[t].by = "relay"

\* The method, Host header, path and raw query of a request.
Fields(r) == <<r.method, r.host, r.path, r.query>>

\* A step of a request in hand that changes one of its four fields.
ChangesFields ==
    \E t \in Tasks :
        pc[t] # "idle" /\ pc'[t] # "idle" /\ Fields(req'[t]) # Fields(req[t])

\* A step of nonProxy that does not leave the URL with scheme http and
\* authority localhost:3001.
MissesTarget ==
    \E t \in Tasks :
        /\ pc[t] = "nonProxy" /\ pc'[t] # "nonProxy"
        /\ <<req'[t].scheme, req'[t].urlHost>> # <<"http", "localhost:3001">>

\* C17: the delegation rewrite sets the target scheme to http and the target
\* authority to localhost:3001 and changes nothing else: method, Host
\* header, path and raw query stay, so the rules tried after it classify the
\* request by its original method, host and path, and the request as
\* forwarded carries the original path and query.
C17_RewriteChangesTargetOnly ==
    /\ [][~ChangesFields /\ ~MissesTarget]_vars
    /\ [](\A t \in Tasks :
            Called(t, "nonProxy")
            => /\ RulesInOrder(t)
               /\ Called(t, "RoundTrip")
                  => /\ Fields(sent[t]) = Fields(req[t])
                     /\ sent[t].scheme = "http"
                     /\ sent[t].urlHost = "localhost:3001")

C17_Witness ==
    \E t \in Tasks :
        /\ pc[t] = "done"
        /\ Called(t, "nonProxy")
        /\ Fields(sent[t]) =
             <<"GET", "registry.bower.io", "/packages/search/a", "q=a&b">>
        /\ sent[t].urlHost = "localhost:3001"

\* The place of a call in main's calls, 0 when it was not made.
CalledAt(call) ==
    IF \E i \in 1..Len(main.calls) : main.calls[i] = call
    THEN CHOOSE i \in 1..Len(main.calls) : main.calls[i] = call
    ELSE 0

\* The server listens or has a request in hand.
Listening == main.pc = "serving" \/ \E t \in Tasks : pc[t] # "idle"

\* C18: a failure of the cache connection, of the cache authentication
\* (attempted when both credentials are set), of the store URI parse, of the
\* pool creation, or of the lookup or launch of the node process ends the
\* process at that step, no call is made twice, and the server listens only
\* after the cache connection, the store pool and the node launch succeeded,
\* in that order.
C18_StartupFailuresAreFatal ==
    /\ \A i, j \in 1..Len(main.calls) :
          i # j => main.calls[i] # main.calls[j]
    /\ main.failed # <<>>
       => /\ main.pc = "fatal"
          /\ main.failed = <<main.calls[Len(main.calls)]>>
    /\ main.pc = "fatal" => ~ENABLED NextStartup
    /\ CalledAt("cn.Auth") # 0
       => main.username # "" /\ main.password # ""
    /\ Listening
       => /\ main.failed = <<>>
          /\ main.cn = "open" /\ main.pool = "open"
          /\ main.node \in {"running", "exited"}
          /\ 0 < CalledAt("mc.Dial")
          /\ main.username # "" /\ main.password # ""
             => CalledAt("mc.Dial") < CalledAt("cn.Auth")
                /\ CalledAt("cn.Auth") < CalledAt("pgx.ParseURI")
          /\ CalledAt("mc.Dial") < CalledAt("pgx.ParseURI")
          /\ CalledAt("pgx.ParseURI") < CalledAt("pgx.NewConnPool")
          /\ CalledAt("pgx.NewConnPool") < CalledAt("exec.LookPath")
          /\ CalledAt("exec.LookPath") < CalledAt("cmd.Start")
          /\ CalledAt("cmd.Start") < CalledAt("http.ListenAndServe")

C18_Witness ==
    /\ main.pc = "fatal"
    /\ main.failed = <<"cmd.Start">>
    /\ CalledAt("cn.Auth") = 2
    /\ main.cn = "open" /\ main.pool = "open" /\ main.node = "none"

\* C19: the store is queried only for a GET on a migrated host whose path
\* starts with /packages/ and not with /packages/search/, the cache is read
\* only for a GET on a migrated host whose path is /packages, such a request
\* causes at most one store query or one cache read, and no request on
\* another host and no request that is not a GET touches store or cache.
C19_ResolverIsolation ==
    \A t \in Tasks :
        /\ Count(t, "pool.QueryRow") = Len(queries[t])
        /\ Len(queries[t]) + Count(t, "cn.Get") <= 1
        /\ queries[t] # <<>>
           => /\ OnMigratedHost(req[t])
              /\ Begins(req[t].path, "/packages/")
              /\ ~Begins(req[t].path, "/packages/search/")
        /\ Called(t, "cn.Get")
           => OnMigratedHost(req[t]) /\ req[t].path = "/packages"
        /\ ~OnMigratedHost(req[t])
           => queries[t] = <<>> /\ ~Called(t, "cn.Get") /\ callErr[t] = ""

C19_Witness ==
    \E t \in Tasks :
        /\ pc[t] = "done"
        /\ OnMigratedHost(req[t])
        /\ req[t].path = "/packages/a"
        /\ queries[t] = <<"a">>
        /\ ~Called(t, "cn.Get")
        /\ "packages" \in DOMAIN cache

\* C20: a response made by the gateway itself carries Cache-Control:
\* public, max-age=604800 exactly when it is a 200 response of the lookup
\* handler or of the list handler; the lookup handler's 404 and 500
\* responses, the 308 redirect and the 200 deprecation notice do not.
C20_CacheControlOnSuccessOnly ==
    \A t \in Tasks :
        resp[t] # NoResp /\ resp[t].by \notin {"relay", "handleHttps"}
        => /\ <<"Cache-Control", "public, max-age=604800">> \in resp[t].header
              <=> /\ resp[t].status = 200
                  /\ resp[t].by \in {"getPackage", "listPackages"}
           /\ HeaderValues(t, "Cache-Control") \subseteq {"public, max-age=604800"}
           /\ resp[t].by = "redirectHandler" \/ resp[t].status \in {404, 500}
              => HeaderValues(t, "Cache-Control") = {}
           /\ resp[t].by \in {"getPackage", "listPackages"}
              => resp[t].status \in {200, 404, 500}

C20_Witness ==
    \E t \in Tasks :
        /\ pc[t] = "done"
        /\ resp[t].by = "listPackages"
        /\ resp[t].status = 200
        /\ HeaderValues(t, "Cache-Control") = {"public, max-age=604800"}
        /\ req[t].scheme = "http" /\ req[t].urlHost = "localhost:3001"

=============================================================================
